---- MODULE Spec2Model ----
(***************************************************************************)
(* Model of the Google Calendar data source of timeliner:                  *)
(*   - Client.ListItems / Client.listItems (googlecalendar.go): the caller, *)
(*     its listing goroutine, the item channel and the error channel;       *)
(*   - eventItem.DataFileReader (event.go): the bounded retry loop.         *)
(* Strings that the code formats are sequences of tokens, so that           *)
(* fmt.Errorf and strings.Join build longer texts out of shorter ones.      *)
(***************************************************************************)
EXTENDS Integers, Sequences, FiniteSets, TLC

VARIABLES
    filename,        \* opt.Filename
    remote,          \* the calendar on the server: page number -> number of records
    chanCap,         \* capacity of the itemChan the caller supplied
    timeframe,       \* opt.Timeframe: whether Since is set, and its value
    listReq,         \* parameters of the last Events.List call
    ctxDone,         \* the caller's context has been cancelled
    cancelAt,        \* position of the listing goroutine when ctx was cancelled
    mainPc,          \* position of ListItems
    i,               \* loop counter of ListItems (line 78)
    errs,            \* errs of ListItems (line 77)
    retErr,          \* the error ListItems returns
    listerPc,        \* position of the listing goroutine
    goStarted,       \* number of listing goroutines started
    srvNil,          \* srv is nil (calendar.New failed)
    events,          \* events.Items of the list response
    nextPageToken,   \* events.NextPageToken of the list response
    idx,             \* index of the range loop (line 101)
    listErr,         \* the value listItems returns
    listCalls,       \* number of Events.List calls made
    itemBuf,         \* contents of itemChan
    itemChanClosed,  \* itemChan is closed
    closeCount,      \* number of close(itemChan) executed
    sentItems,       \* every item graph sent on itemChan, with the record it was built for
    received,        \* what the consumer has received
    consumerStopped, \* the consumer has stopped receiving
    consumerSawClose,\* the consumer has observed the closure of itemChan
    panicked         \* "none", or the runtime panic that ended the process

lvars == <<filename, remote, chanCap, timeframe, listReq, ctxDone, cancelAt, mainPc, i, errs, retErr,
           listerPc, goStarted, srvNil, events, nextPageToken, idx, listErr,
           listCalls, itemBuf, itemChanClosed, closeCount, sentItems, received,
           consumerStopped, consumerSawClose, panicked>>

VARIABLES
    item,            \* the eventItem DataFileReader is called on
    fpc,             \* position of DataFileReader
    u,               \* the download URL
    fi,              \* loop counter of DataFileReader (line 278)
    resp,            \* resp
    err,             \* err
    sleepFor,        \* seconds of the pending time.Sleep
    slept,           \* seconds slept so far
    history,         \* outcome of every http.Get issued
    retBody,         \* the stream DataFileReader returns
    retFetchErr      \* the error DataFileReader returns

fvars == <<item, fpc, u, fi, resp, err, sleepFor, slept, history, retBody, retFetchErr>>

VARIABLES
    metaItem,        \* the eventItem Metadata is called on
    metaPc,          \* position of Metadata
    widthInt,        \* widthInt
    heightInt,       \* heightInt
    meta,            \* meta
    metaRet,         \* the *timeliner.Metadata that Metadata returns
    metaErr          \* the error Metadata returns

mvars == <<metaItem, metaPc, widthInt, heightInt, meta, metaRet, metaErr>>

vars == <<lvars, fvars, mvars>>

----------------------------------------------------------------------------
(* Bounds of the model *)

MaxPages == 2
MaxPageItems == 2
MaxChanCap == 1
MaxSince == 2
MaxHeightLen == 2

----------------------------------------------------------------------------
(* Errors and formatted strings *)

NilErr == [isNil |-> TRUE, msg |-> <<>>]

Err(m) == [isNil |-> FALSE, msg |-> m]

\* fmt.Errorf(prefix + "%v", arg)
Errorf(prefix, arg) == Err(<<prefix>> \o arg)

RECURSIVE Join(_, _)
Join(elems, sep) ==
    IF Len(elems) = 0 THEN <<>>
    ELSE IF Len(elems) = 1 THEN elems[1]
    ELSE elems[1] \o <<sep>> \o Join(Tail(elems), sep)

\* sub occurs in s
Contains(s, sub) ==
    \E k \in 0..(Len(s) - Len(sub)) : SubSeq(s, k + 1, k + Len(sub)) = sub

NumListers == 1

ConfigErr == Err(<<"importing data from a file is not supported">>)

CombineErrsDropMsgs(es) ==
    IF Len(es) > 0 THEN Err(<<"one or more errors: ">>) ELSE NilErr

\* an error returned whether or not a task failed
CombineErrsAlways(es) == Errorf("one or more errors: ", Join(es, ", "))

CombineErrs(es) ==
    IF Len(es) > 0 THEN Errorf("one or more errors: ", Join(es, ", ")) ELSE NilErr

ListErrs == {<<"googleapi: Error 401">>, <<"unexpected EOF">>}

ListFailed(e) == Errorf("getting items on next page: ", e)

----------------------------------------------------------------------------
(* The calendar on the server and the items built from it *)

NoToken == <<>>

ZeroTime == 0

NumPages == Len(remote)

Record(p, k) == [Id |-> <<"ev", ToString(p), ToString(k)>>, Created |-> 10 * p + k]

PageItems(p) == [k \in 1..remote[p] |-> Record(p, k)]

PageToken(p) == IF p < NumPages THEN <<"page", ToString(p + 1)>> ELSE NoToken

RECURSIVE AllRecordsFrom(_)
AllRecordsFrom(p) == IF p > NumPages THEN <<>> ELSE PageItems(p) \o AllRecordsFrom(p + 1)

\* var event eventItem
ZeroEventItem == [eventID |-> <<>>, CreationTime |-> ZeroTime]

ID(m) == m.eventID

Timestamp(m) == m.CreationTime

ItemGraph(node) == [Node |-> node]

Remotes == UNION {[1..n -> 0..MaxPageItems] : n \in 1..MaxPages}

\* timeliner.Timeframe: Since is nil or a point in time
Timeframes ==
    [hasSince : {FALSE}, since : {ZeroTime}] \cup [hasSince : {TRUE}, since : 1..MaxSince]

\* what time.Now() reads when listItems runs
ClockNow == 2

\* t.Format(time.RFC3339)
RFC3339(t) == <<"rfc3339 ", ToString(t)>>

MaxResults == 10

NoRequest ==
    [calendarId |-> "", showDeleted |-> FALSE, singleEvents |-> FALSE, timeMin |-> <<>>,
     maxResults |-> 0, orderBy |-> "", pageToken |-> NoToken]

\* t := time.Now().Format(time.RFC3339): the Timeframe is not read
TimeMinOf(tf) == RFC3339(ClockNow)

\* srv.Events.List("primary").ShowDeleted(false).SingleEvents(true).TimeMin(t).
\*     MaxResults(10).OrderBy("startTime")
ListRequest(tf) ==
    [calendarId |-> "primary", showDeleted |-> FALSE, singleEvents |-> TRUE,
     timeMin |-> TimeMinOf(tf), maxResults |-> MaxResults, orderBy |-> "startTime",
     pageToken |-> NoToken]

----------------------------------------------------------------------------
(* State after construction: ListItems has been called, DataFileReader has not *)

\* a nil *http.Response / a nil io.ReadCloser
NoResp == [isNil |-> TRUE, status |-> 0, body |-> 0, closed |-> FALSE]

FetchVars(pc) ==
    /\ fpc = pc
    /\ u = <<>>
    /\ fi = 0
    /\ resp = NoResp
    /\ err = NilErr
    /\ sleepFor = 0
    /\ slept = 0
    /\ history = <<>>
    /\ retBody = NoResp
    /\ retFetchErr = NilErr

FetchIdle ==
    /\ item = [Video |-> "nil", Photo |-> FALSE, BaseURL |-> <<"base">>]
    /\ FetchVars("idle")

\* a nil *timeliner.Metadata
NoMeta ==
    [isNil |-> TRUE, Width |-> 0, Height |-> 0, CameraMake |-> "", ExposureTime |-> 0,
     FPS |-> 0]

MetaVars(pc) ==
    /\ metaPc = pc
    /\ widthInt = 0
    /\ heightInt = 0
    /\ meta = NoMeta
    /\ metaRet = NoMeta
    /\ metaErr = NilErr

MetaIdle ==
    /\ metaItem = [Height |-> <<>>, Photo |-> [isNil |-> TRUE, ExposureTime |-> <<>>],
                   Video |-> FALSE]
    /\ MetaVars("idle")

ListVars(pc) ==
    /\ ctxDone = FALSE
    /\ cancelAt = "none"
    /\ mainPc = pc
    /\ i = 0
    /\ errs = <<>>
    /\ retErr = NilErr
    /\ listerPc = "idle"
    /\ goStarted = 0
    /\ srvNil = FALSE
    /\ events = <<>>
    /\ nextPageToken = NoToken
    /\ idx = 0
    /\ listErr = NilErr
    /\ listCalls = 0
    /\ listReq = NoRequest
    /\ itemBuf = <<>>
    /\ itemChanClosed = FALSE
    /\ closeCount = 0
    /\ sentItems = <<>>
    /\ received = <<>>
    /\ consumerStopped = FALSE
    /\ consumerSawClose = FALSE
    /\ panicked = "none"

Init ==
    /\ filename \in {"", "takeout.zip"}
    /\ remote \in Remotes
    /\ chanCap \in 0..MaxChanCap
    /\ timeframe \in Timeframes
    /\ ListVars("start")
    /\ FetchIdle
    /\ MetaIdle

----------------------------------------------------------------------------
(* ListItems *)

Running == panicked = "none"

\* the check of opt.Filename left out
Main_CheckFilenameIgnored ==
    /\ Running
    /\ mainPc = "start"
    /\ mainPc' = "spawn"
    /\ UNCHANGED <<filename, remote, chanCap, timeframe, listReq, ctxDone, cancelAt, i, errs, retErr,
                   listerPc, goStarted, srvNil, events, nextPageToken, idx, listErr,
                   listCalls, itemBuf, itemChanClosed, closeCount, sentItems, received,
                   consumerStopped, consumerSawClose, panicked>>
    /\ UNCHANGED <<fvars, mvars>>

Main_CheckFilename ==
    /\ Running
    /\ mainPc = "start"
    /\ IF filename # ""
         THEN /\ retErr' = ConfigErr
              /\ mainPc' = "defer"
         ELSE /\ mainPc' = "spawn"
              /\ UNCHANGED retErr
    /\ UNCHANGED <<filename, remote, chanCap, timeframe, listReq, ctxDone, cancelAt, i, errs,
                   listerPc, goStarted, srvNil, events, nextPageToken, idx, listErr,
                   listCalls, itemBuf, itemChanClosed, closeCount, sentItems, received,
                   consumerStopped, consumerSawClose, panicked>>
    /\ UNCHANGED <<fvars, mvars>>

\* the goroutine started, but the receive loop skipped
Main_SpawnNoWait ==
    /\ Running
    /\ mainPc = "spawn"
    /\ listerPc' = "new"
    /\ goStarted' = goStarted + 1
    /\ i' = NumListers
    /\ mainPc' = "wait"
    /\ UNCHANGED <<filename, remote, chanCap, timeframe, listReq, ctxDone, cancelAt, errs, retErr,
                   srvNil, events, nextPageToken, idx, listErr,
                   listCalls, itemBuf, itemChanClosed, closeCount, sentItems, received,
                   consumerStopped, consumerSawClose, panicked>>
    /\ UNCHANGED <<fvars, mvars>>

Main_Spawn ==
    /\ Running
    /\ mainPc = "spawn"
    /\ listerPc' = "new"
    /\ goStarted' = goStarted + 1
    /\ i' = 0
    /\ mainPc' = "wait"
    /\ UNCHANGED <<filename, remote, chanCap, timeframe, listReq, ctxDone, cancelAt, errs, retErr,
                   srvNil, events, nextPageToken, idx, listErr,
                   listCalls, itemBuf, itemChanClosed, closeCount, sentItems, received,
                   consumerStopped, consumerSawClose, panicked>>
    /\ UNCHANGED <<fvars, mvars>>

\* err := <-errChan meets errChan <- err of the goroutine (errChan is unbuffered)
Main_RecvErr ==
    /\ Running
    /\ mainPc = "wait"
    /\ i < NumListers
    /\ listerPc = "sendErr"
    /\ errs' = IF listErr.isNil THEN errs ELSE Append(errs, listErr.msg)
    /\ i' = i + 1
    /\ listerPc' = "done"
    /\ UNCHANGED <<filename, remote, chanCap, timeframe, listReq, ctxDone, cancelAt, mainPc, retErr,
                   goStarted, srvNil, events, nextPageToken, idx, listErr,
                   listCalls, itemBuf, itemChanClosed, closeCount, sentItems, received,
                   consumerStopped, consumerSawClose, panicked>>
    /\ UNCHANGED <<fvars, mvars>>

Main_Return ==
    /\ Running
    /\ mainPc = "wait"
    /\ i >= NumListers
    /\ retErr' = CombineErrs(errs)
    /\ mainPc' = "defer"
    /\ UNCHANGED <<filename, remote, chanCap, timeframe, listReq, ctxDone, cancelAt, i, errs,
                   listerPc, goStarted, srvNil, events, nextPageToken, idx, listErr,
                   listCalls, itemBuf, itemChanClosed, closeCount, sentItems, received,
                   consumerStopped, consumerSawClose, panicked>>
    /\ UNCHANGED <<fvars, mvars>>

\* ListItems returning without the deferred close
Main_ReturnNoClose ==
    /\ Running
    /\ mainPc = "defer"
    /\ mainPc' = "returned"
    /\ UNCHANGED <<filename, remote, chanCap, timeframe, listReq, ctxDone, cancelAt, i, errs, retErr,
                   listerPc, goStarted, srvNil, events, nextPageToken, idx, listErr,
                   listCalls, itemBuf, itemChanClosed, closeCount, sentItems, received,
                   consumerStopped, consumerSawClose, panicked>>
    /\ UNCHANGED <<fvars, mvars>>

\* defer close(itemChan)
Main_DeferClose ==
    /\ Running
    /\ mainPc = "defer"
    /\ IF itemChanClosed
         THEN /\ panicked' = "close of closed channel"
              /\ UNCHANGED <<itemChanClosed, closeCount, mainPc>>
         ELSE /\ itemChanClosed' = TRUE
              /\ closeCount' = closeCount + 1
              /\ mainPc' = "returned"
              /\ UNCHANGED panicked
    /\ UNCHANGED <<filename, remote, chanCap, timeframe, listReq, ctxDone, cancelAt, i, errs, retErr,
                   listerPc, goStarted, srvNil, events, nextPageToken, idx, listErr,
                   listCalls, itemBuf, sentItems, received,
                   consumerStopped, consumerSawClose>>
    /\ UNCHANGED <<fvars, mvars>>

----------------------------------------------------------------------------
(* listItems, run by the goroutine ListItems starts *)

\* srv, err := calendar.New(c.HTTPClient); err is overwritten before it is read
Lister_New ==
    /\ Running
    /\ listerPc = "new"
    /\ \E ok \in BOOLEAN : srvNil' = ~ok
    /\ listerPc' = "list"
    /\ UNCHANGED <<filename, remote, chanCap, timeframe, listReq, ctxDone, cancelAt, mainPc, i, errs, retErr,
                   goStarted, events, nextPageToken, idx, listErr,
                   listCalls, itemBuf, itemChanClosed, closeCount, sentItems, received,
                   consumerStopped, consumerSawClose, panicked>>
    /\ UNCHANGED <<fvars, mvars>>

\* srv.Events on a nil srv
Lister_NilService ==
    /\ Running
    /\ listerPc = "list"
    /\ srvNil
    /\ panicked' = "nil pointer dereference"
    /\ listerPc' = "panic"
    /\ UNCHANGED <<filename, remote, chanCap, timeframe, listReq, ctxDone, cancelAt, mainPc, i, errs, retErr,
                   goStarted, srvNil, events, nextPageToken, idx, listErr,
                   listCalls, itemBuf, itemChanClosed, closeCount, sentItems, received,
                   consumerStopped, consumerSawClose>>
    /\ UNCHANGED <<fvars, mvars>>

\* events, err := srv.Events.List("primary")...Do() answers with the first page
Lister_ListOk ==
    /\ Running
    /\ listerPc = "list"
    /\ ~srvNil
    /\ listCalls' = listCalls + 1
    /\ listReq' = ListRequest(timeframe)
    /\ events' = PageItems(1)
    /\ nextPageToken' = PageToken(1)
    /\ idx' = 1
    /\ listerPc' = "loop"
    /\ UNCHANGED <<filename, remote, chanCap, timeframe, ctxDone, cancelAt, mainPc, i, errs, retErr,
                   goStarted, srvNil, listErr,
                   itemBuf, itemChanClosed, closeCount, sentItems, received,
                   consumerStopped, consumerSawClose, panicked>>
    /\ UNCHANGED <<fvars, mvars>>

\* events, err := srv.Events.List("primary")...Do() fails
Lister_ListFail ==
    /\ Running
    /\ listerPc = "list"
    /\ ~srvNil
    /\ listCalls' = listCalls + 1
    /\ listReq' = ListRequest(timeframe)
    /\ \E e \in ListErrs : listErr' = ListFailed(e)
    /\ listerPc' = "sendErr"
    /\ UNCHANGED <<filename, remote, chanCap, timeframe, ctxDone, cancelAt, mainPc, i, errs, retErr,
                   goStarted, srvNil, events, nextPageToken, idx,
                   itemBuf, itemChanClosed, closeCount, sentItems, received,
                   consumerStopped, consumerSawClose, panicked>>
    /\ UNCHANGED <<fvars, mvars>>

\* the range loop stopping one record early
Lister_RangeDropsLast ==
    /\ Running
    /\ listerPc = "loop"
    /\ IF idx < Len(events)
         THEN /\ listerPc' = "send"
              /\ UNCHANGED listErr
         ELSE /\ listErr' = NilErr
              /\ listerPc' = "sendErr"
    /\ UNCHANGED <<filename, remote, chanCap, timeframe, listReq, ctxDone, cancelAt, mainPc, i, errs, retErr,
                   goStarted, srvNil, events, nextPageToken, idx,
                   listCalls, itemBuf, itemChanClosed, closeCount, sentItems, received,
                   consumerStopped, consumerSawClose, panicked>>
    /\ UNCHANGED <<fvars, mvars>>

\* for _, item := range events.Items; return nil after the last one
Lister_Range ==
    /\ Running
    /\ listerPc = "loop"
    /\ IF idx <= Len(events)
         THEN /\ listerPc' = "send"
              /\ UNCHANGED listErr
         ELSE /\ listErr' = NilErr
              /\ listerPc' = "sendErr"
    /\ UNCHANGED <<filename, remote, chanCap, timeframe, listReq, ctxDone, cancelAt, mainPc, i, errs, retErr,
                   goStarted, srvNil, events, nextPageToken, idx,
                   listCalls, itemBuf, itemChanClosed, closeCount, sentItems, received,
                   consumerStopped, consumerSawClose, panicked>>
    /\ UNCHANGED <<fvars, mvars>>

\* var event eventItem: nothing of the record is copied into it
NewEventItem(rec) == ZeroEventItem

Sent(rec) == [graph |-> ItemGraph(NewEventItem(rec)), record |-> rec]

\* itemChan <- &timeliner.ItemGraph{Node: event}
Lister_Send ==
    /\ Running
    /\ listerPc = "send"
    /\ IF itemChanClosed
         THEN /\ panicked' = "send on closed channel"
              /\ listerPc' = "panic"
              /\ UNCHANGED <<itemBuf, received, sentItems, idx>>
         ELSE /\ \/ /\ Len(itemBuf) < chanCap
                    /\ itemBuf' = Append(itemBuf, Sent(events[idx]).graph)
                    /\ UNCHANGED received
                 \/ /\ chanCap = 0
                    /\ ~consumerStopped
                    /\ received' = Append(received, Sent(events[idx]).graph)
                    /\ UNCHANGED itemBuf
              /\ sentItems' = Append(sentItems, Sent(events[idx]))
              /\ idx' = idx + 1
              /\ listerPc' = "loop"
              /\ UNCHANGED panicked
    /\ UNCHANGED <<filename, remote, chanCap, timeframe, listReq, ctxDone, cancelAt, mainPc, i, errs, retErr,
                   goStarted, srvNil, events, nextPageToken, listErr,
                   listCalls, itemChanClosed, closeCount,
                   consumerStopped, consumerSawClose>>
    /\ UNCHANGED <<fvars, mvars>>

----------------------------------------------------------------------------
(* The caller's side: the consumer of itemChan and the owner of ctx *)

Consumer_Recv ==
    /\ Running
    /\ ~consumerStopped
    /\ Len(itemBuf) > 0
    /\ received' = Append(received, Head(itemBuf))
    /\ itemBuf' = Tail(itemBuf)
    /\ UNCHANGED <<filename, remote, chanCap, timeframe, listReq, ctxDone, cancelAt, mainPc, i, errs, retErr,
                   listerPc, goStarted, srvNil, events, nextPageToken, idx, listErr,
                   listCalls, itemChanClosed, closeCount, sentItems,
                   consumerStopped, consumerSawClose, panicked>>
    /\ UNCHANGED <<fvars, mvars>>

Consumer_SeeClose ==
    /\ Running
    /\ ~consumerStopped
    /\ ~consumerSawClose
    /\ itemChanClosed
    /\ Len(itemBuf) = 0
    /\ consumerSawClose' = TRUE
    /\ UNCHANGED <<filename, remote, chanCap, timeframe, listReq, ctxDone, cancelAt, mainPc, i, errs, retErr,
                   listerPc, goStarted, srvNil, events, nextPageToken, idx, listErr,
                   listCalls, itemBuf, itemChanClosed, closeCount, sentItems, received,
                   consumerStopped, panicked>>
    /\ UNCHANGED <<fvars, mvars>>

Consumer_Stop ==
    /\ Running
    /\ ~consumerStopped
    /\ ~consumerSawClose
    /\ consumerStopped' = TRUE
    /\ UNCHANGED <<filename, remote, chanCap, timeframe, listReq, ctxDone, cancelAt, mainPc, i, errs, retErr,
                   listerPc, goStarted, srvNil, events, nextPageToken, idx, listErr,
                   listCalls, itemBuf, itemChanClosed, closeCount, sentItems, received,
                   consumerSawClose, panicked>>
    /\ UNCHANGED <<fvars, mvars>>

\* the caller cancels ctx; nothing in ListItems or listItems reads ctx
Cancel ==
    /\ Running
    /\ ~ctxDone
    /\ mainPc # "returned"
    /\ ctxDone' = TRUE
    /\ cancelAt' = listerPc
    /\ UNCHANGED <<filename, remote, chanCap, timeframe, listReq, mainPc, i, errs, retErr,
                   listerPc, goStarted, srvNil, events, nextPageToken, idx, listErr,
                   listCalls, itemBuf, itemChanClosed, closeCount, sentItems, received,
                   consumerStopped, consumerSawClose, panicked>>
    /\ UNCHANGED <<fvars, mvars>>

MainNext ==
    \/ Main_CheckFilename
    \/ Main_Spawn
    \/ Main_RecvErr
    \/ Main_Return
    \/ Main_DeferClose

ListerNext ==
    \/ Lister_New
    \/ Lister_NilService
    \/ Lister_ListOk
    \/ Lister_ListFail
    \/ Lister_Range
    \/ Lister_Send

ConsumerNext ==
    \/ Consumer_Recv
    \/ Consumer_SeeClose

Next ==
    \/ MainNext
    \/ ListerNext
    \/ ConsumerNext
    \/ Consumer_Stop
    \/ Cancel

Spec == Init /\ [][Next]_vars

\* the Go scheduler runs every runnable goroutine; the caller is free to stop
\* receiving and to cancel or not
FairSpec ==
    /\ Spec
    /\ WF_vars(MainNext)
    /\ WF_vars(ListerNext)
    /\ WF_vars(ConsumerNext)

----------------------------------------------------------------------------
(* eventItem.DataFileReader *)

maxTries == 5

StatusOK == 200

BadStatuses == {404, 500}

\* EventMetadata.Video is nil, or its Status
VideoStates == {"nil", "READY", "PROCESSING"}

Items == [Video : VideoStates, Photo : BOOLEAN, BaseURL : {<<"base">>}]

\* what one http.Get can do: fail in the transport (nil response), fail the
\* redirect policy (response with a closed body and an error), answer with a
\* status other than 200 (the body readable or not), answer 200
Outcomes ==
    [kind : {"transport", "redirect", "ok"}, status : {StatusOK}, readOK : {TRUE}]
      \cup [kind : {"status"}, status : BadStatuses, readOK : BOOLEAN]

Failed(o) == o.kind # "ok"

\* the error http.Get returns on attempt k
GetErrText(k) == <<"Get: transport failure of attempt ", ToString(k)>>

\* the body the server sends on attempt k
BodyText(k) == <<"body of attempt ", ToString(k)>>

\* resp.Status
StatusLine(code) == <<ToString(code), " status">>

\* fmt.Errorf("getting event contents: %v", err)
GetFailed(k) == Errorf("getting event contents: ", GetErrText(k))

\* fmt.Errorf("HTTP %d: %s: >>> %s <<<", ...) or fmt.Errorf("HTTP %d: %s", ...)
BadResponse(k, code, readOK) ==
    IF readOK
      THEN Err(<<"HTTP ", ToString(code), ": ">> \o StatusLine(code) \o <<": >>> ">>
               \o BodyText(k) \o <<" <<<">>)
      ELSE Err(<<"HTTP ", ToString(code), ": ">> \o StatusLine(code))

\* the error DataFileReader sets after attempt k ended with outcome o
AttemptErr(k, o) ==
    IF o.kind = "ok" THEN NilErr
    ELSE IF o.kind = "status" THEN BadResponse(k, o.status, o.readOK)
    ELSE GetFailed(k)

URLSuffix(m) ==
    IF m.Photo THEN <<"=d">>
    ELSE IF m.Video # "nil" THEN <<"=dv">>
    ELSE <<>>

FetchInit ==
    /\ filename = ""
    /\ remote = <<0>>
    /\ chanCap = 0
    /\ timeframe = [hasSince |-> FALSE, since |-> ZeroTime]
    /\ ListVars("idle")
    /\ item \in Items
    /\ FetchVars("start")
    /\ MetaIdle

\* the status of the video not looked at
DFR_StartNoReadyCheck ==
    /\ fpc = "start"
    /\ u' = item.BaseURL \o URLSuffix(item)
    /\ fi' = 0
    /\ fpc' = "loop"
    /\ UNCHANGED <<item, resp, err, sleepFor, slept, history, retBody, retFetchErr>>
    /\ UNCHANGED <<lvars, mvars>>

DFR_Start ==
    /\ fpc = "start"
    /\ IF item.Video # "nil" /\ item.Video # "READY"
         THEN /\ retBody' = NoResp
              /\ retFetchErr' = NilErr
              /\ fpc' = "returned"
              /\ UNCHANGED <<u, fi>>
         ELSE /\ u' = item.BaseURL \o URLSuffix(item)
              /\ fi' = 0
              /\ fpc' = "loop"
              /\ UNCHANGED <<retBody, retFetchErr>>
    /\ UNCHANGED <<item, resp, err, sleepFor, slept, history>>
    /\ UNCHANGED <<lvars, mvars>>

LoopCondShort(k) == k < maxTries - 1

\* i < maxTries
LoopCond(k) == k < maxTries

DFR_Loop ==
    /\ fpc = "loop"
    /\ fpc' = IF LoopCond(fi) THEN "get" ELSE "after"
    /\ UNCHANGED <<item, u, fi, resp, err, sleepFor, slept, history, retBody, retFetchErr>>
    /\ UNCHANGED <<lvars, mvars>>

\* resp, err = http.Get(u) fails with a nil response
DFR_GetTransportErr ==
    /\ fpc = "get"
    /\ \E o \in {o \in Outcomes : o.kind = "transport"} :
         /\ history' = Append(history, o)
         /\ resp' = NoResp
         /\ err' = GetFailed(Len(history) + 1)
    /\ sleepFor' = 30
    /\ fpc' = "sleep"
    /\ UNCHANGED <<item, u, fi, slept, retBody, retFetchErr>>
    /\ UNCHANGED <<lvars, mvars>>

\* resp, err = http.Get(u) fails in the redirect policy: a response and an error
DFR_GetRedirectErr ==
    /\ fpc = "get"
    /\ \E o \in {o \in Outcomes : o.kind = "redirect"} :
         /\ history' = Append(history, o)
         /\ resp' = [isNil |-> FALSE, status |-> 302, body |-> Len(history) + 1,
                     closed |-> TRUE]
         /\ err' = GetFailed(Len(history) + 1)
    /\ sleepFor' = 30
    /\ fpc' = "sleep"
    /\ UNCHANGED <<item, u, fi, slept, retBody, retFetchErr>>
    /\ UNCHANGED <<lvars, mvars>>

\* err set only while it is still nil: the error of the first failure is kept
DFR_GetBadStatusKeepsFirstErr ==
    /\ fpc = "get"
    /\ \E o \in {o \in Outcomes : o.kind = "status"} :
         /\ history' = Append(history, o)
         /\ resp' = [isNil |-> FALSE, status |-> o.status, body |-> Len(history) + 1,
                     closed |-> TRUE]
         /\ err' = IF err.isNil THEN BadResponse(Len(history) + 1, o.status, o.readOK)
                   ELSE err
    /\ sleepFor' = 15
    /\ fpc' = "sleep"
    /\ UNCHANGED <<item, u, fi, slept, retBody, retFetchErr>>
    /\ UNCHANGED <<lvars, mvars>>

\* resp.StatusCode != http.StatusOK: read the body, close it, set err
DFR_GetBadStatus ==
    /\ fpc = "get"
    /\ \E o \in {o \in Outcomes : o.kind = "status"} :
         /\ history' = Append(history, o)
         /\ resp' = [isNil |-> FALSE, status |-> o.status, body |-> Len(history) + 1,
                     closed |-> TRUE]
         /\ err' = BadResponse(Len(history) + 1, o.status, o.readOK)
    /\ sleepFor' = 15
    /\ fpc' = "sleep"
    /\ UNCHANGED <<item, u, fi, slept, retBody, retFetchErr>>
    /\ UNCHANGED <<lvars, mvars>>

\* 200: break
DFR_GetOk ==
    /\ fpc = "get"
    /\ \E o \in {o \in Outcomes : o.kind = "ok"} :
         /\ history' = Append(history, o)
         /\ resp' = [isNil |-> FALSE, status |-> o.status, body |-> Len(history) + 1,
                     closed |-> FALSE]
         /\ err' = NilErr
    /\ fpc' = "after"
    /\ UNCHANGED <<item, u, fi, sleepFor, slept, retBody, retFetchErr>>
    /\ UNCHANGED <<lvars, mvars>>

\* time.Sleep(...); continue
DFR_Sleep ==
    /\ fpc = "sleep"
    /\ slept' = slept + sleepFor
    /\ sleepFor' = 0
    /\ fi' = fi + 1
    /\ fpc' = "loop"
    /\ UNCHANGED <<item, u, resp, err, history, retBody, retFetchErr>>
    /\ UNCHANGED <<lvars, mvars>>

\* if resp == nil { return nil, err }; return resp.Body, err
DFR_Return ==
    /\ fpc = "after"
    /\ retBody' = IF resp.isNil THEN NoResp ELSE resp
    /\ retFetchErr' = err
    /\ fpc' = "returned"
    /\ UNCHANGED <<item, u, fi, resp, err, sleepFor, slept, history>>
    /\ UNCHANGED <<lvars, mvars>>

FetchNext ==
    \/ DFR_Start
    \/ DFR_Loop
    \/ DFR_GetTransportErr
    \/ DFR_GetRedirectErr
    \/ DFR_GetBadStatus
    \/ DFR_GetOk
    \/ DFR_Sleep
    \/ DFR_Return

FetchSpec == FetchInit /\ [][FetchNext]_vars

\* every http.Get returns and the calling goroutine keeps running
FetchFairSpec == FetchSpec /\ WF_vars(FetchNext)

----------------------------------------------------------------------------
(* Properties of ListItems *)

ListingInProgress == {"new", "list", "loop", "send"}

\* C1: on every return path of ListItems itemChan is closed exactly once: it
\* is closed when ListItems has returned and close is never executed twice.
C1_ClosedExactlyOnce ==
    /\ closeCount <= 1
    /\ panicked # "close of closed channel"
    /\ mainPc = "returned" => (closeCount = 1 /\ itemChanClosed)

C1_Witness ==
    /\ mainPc = "returned"
    /\ filename = ""
    /\ ~retErr.isNil
    /\ closeCount = 1

\* C2: itemChan is closed only after the listing goroutine has made all its
\* sends and handed over its result: while the goroutine can still send, the
\* channel is open, no send hits a closed channel and the consumer has not
\* seen the closure.
C2_CloseAfterListerDone ==
    /\ itemChanClosed => listerPc \in {"idle", "done"}
    /\ listerPc = "idle" => goStarted = 0
    /\ consumerSawClose => listerPc \notin ListingInProgress \cup {"sendErr"}
    /\ panicked # "send on closed channel"

C2_Witness ==
    /\ itemChanClosed
    /\ consumerSawClose
    /\ listerPc = "done"
    /\ Len(sentItems) = 2
    /\ Len(received) = 2

\* C3: when ctx is cancelled while the listing is in progress, ListItems
\* returns a cancellation-class error.
C3_CancelReturnsCancellationError ==
    (mainPc = "returned" /\ cancelAt \in ListingInProgress)
        => (~retErr.isNil /\ Contains(retErr.msg, <<"context canceled">>))

\* C4: with a consumer that keeps receiving, itemChan is eventually closed and
\* ListItems eventually returns, whether the listing succeeds or fails.
C4_EventuallyClosedAndReturned ==
    ([]~consumerStopped) => <>(mainPc = "returned" /\ itemChanClosed)

\* C5: without a file-import path ListItems returns a non-nil error exactly
\* when the listing task returned one, and the returned error contains the
\* message of the failed task.
C5_CombinedError ==
    (mainPc = "returned" /\ filename = "")
        => /\ retErr.isNil <=> listErr.isNil
           /\ ~listErr.isNil => Contains(retErr.msg, listErr.msg)

C5_Witness ==
    /\ mainPc = "returned"
    /\ filename = ""
    /\ ~listErr.isNil
    /\ ~retErr.isNil

\* C6: with a file-import path ListItems goes straight to its return with the
\* configuration error: no goroutine is started, no list call is made and no
\* item is sent.
C6_FileImportFailsFast ==
    filename # ""
        => /\ mainPc \in {"start", "defer", "returned"}
           /\ goStarted = 0
           /\ listerPc = "idle"
           /\ listCalls = 0
           /\ sentItems = <<>>
           /\ mainPc \in {"defer", "returned"} => retErr = ConfigErr

C6_Witness ==
    /\ filename # ""
    /\ mainPc = "returned"
    /\ itemChanClosed
    /\ retErr = ConfigErr

\* C7: every item sent on itemChan has a non-empty ID() and a valid
\* Timestamp(), both those of the record it was built from.
C7_SentItemsCarryIdAndTimestamp ==
    \A k \in 1..Len(sentItems) :
        /\ ID(sentItems[k].graph.Node) # <<>>
        /\ ID(sentItems[k].graph.Node) = sentItems[k].record.Id
        /\ Timestamp(sentItems[k].graph.Node) # ZeroTime
        /\ Timestamp(sentItems[k].graph.Node) = sentItems[k].record.Created

\* C8: listItems does not finish while a continuation token is outstanding:
\* when it returns nil, the records of every page have been sent, in order.
C8_AllPagesListed ==
    (listerPc \in {"sendErr", "done"} /\ listErr.isNil)
        => /\ nextPageToken = NoToken
           /\ [k \in 1..Len(sentItems) |-> sentItems[k].record] = AllRecordsFrom(1)

----------------------------------------------------------------------------
(* Properties of DataFileReader *)

LastOutcome == history[Len(history)]

\* C9: one call issues at most maxTries GETs, never issues one after a 200,
\* gives up on a failure only after maxTries attempts, and after a 200 returns
\* the open body of that attempt with a nil error.
C9_BoundedRetryUntilFirst200 ==
    /\ Len(history) <= maxTries
    /\ \A k \in 1..(Len(history) - 1) : Failed(history[k])
    /\ (fpc = "returned" /\ Len(history) > 0 /\ Failed(LastOutcome))
           => Len(history) = maxTries
    /\ (fpc = "returned" /\ Len(history) > 0 /\ ~Failed(LastOutcome))
           => /\ retFetchErr.isNil
              /\ retBody = [isNil |-> FALSE, status |-> StatusOK,
                            body |-> Len(history), closed |-> FALSE]

C9_Witness ==
    /\ fpc = "returned"
    /\ Len(history) = maxTries
    /\ \A k \in 1..(maxTries - 1) : history[k].kind = "status"
    /\ history[maxTries].kind = "ok"
    /\ retFetchErr.isNil
    /\ retBody.body = maxTries

\* C10: a call whose maxTries attempts all fail terminates and returns the
\* error of the last attempt.
C10_LastErrorReturned ==
    /\ [](( /\ fpc = "returned"
            /\ Len(history) = maxTries
            /\ Failed(history[maxTries]) )
            => /\ ~retFetchErr.isNil
               /\ retFetchErr = AttemptErr(maxTries, history[maxTries]))
    /\ <>(fpc = "returned")

C10_Witness ==
    /\ fpc = "returned"
    /\ Len(history) = maxTries
    /\ history[1].kind = "status"
    /\ history[1].status = 404
    /\ history[maxTries].kind = "status"
    /\ history[maxTries].status = 500
    /\ ~retFetchErr.isNil

----------------------------------------------------------------------------
(* Further properties of DataFileReader *)

VideoNotReady == item.Video # "nil" /\ item.Video # "READY"

\* C11: when the video status is present and not "READY", DataFileReader
\* returns neither a stream nor an error, without any GET and without
\* sleeping; in every other case at least one GET has been attempted when it
\* returns.
C11_SkipsUnreadyVideo ==
    /\ VideoNotReady
         => /\ history = <<>>
            /\ slept = 0
            /\ fpc \in {"start", "returned"}
            /\ fpc = "returned" => (retBody.isNil /\ retFetchErr.isNil)
    /\ (~VideoNotReady /\ fpc = "returned") => Len(history) >= 1

C11_Witness ==
    /\ item.Video = "PROCESSING"
    /\ fpc = "returned"
    /\ retBody.isNil
    /\ retFetchErr.isNil

\* C17: DataFileReader returns a stream or an error, never both, and a stream
\* it returns has not been closed.
C17_StreamOrErrorNeverBoth ==
    fpc = "returned"
        => /\ ~retFetchErr.isNil => retBody.isNil
           /\ ~retBody.isNil => ~retBody.closed

----------------------------------------------------------------------------
(* Further properties of ListItems *)

\* C12: every unrecoverable failure of the listing step, the failure of
\* calendar.New included, makes listItems return a non-nil error that
\* ListItems reports; none of them ends in a panic or in the use of a nil
\* service.
C12_ListingFailureIsReported ==
    /\ panicked = "none"
    /\ (srvNil /\ listerPc \notin {"new", "list"}) => ~listErr.isNil
    /\ (mainPc = "returned" /\ ~listErr.isNil) => ~retErr.isNil

\* C15 as stated: when ListItems returns nil, the consumer has received
\* exactly as many items as the page held records.
C15_ReceivedAllOnReturn ==
    (mainPc = "returned" /\ filename = "" /\ retErr.isNil)
        => Len(received) = Len(events)

SentGraphs == [k \in 1..Len(sentItems) |-> sentItems[k].graph]

\* C15 amended: one item is sent per record of the page, in the order of the
\* page, each as soon as it is produced, and every item sent is with the
\* consumer or in the buffer of the channel, in the order sent; when ListItems
\* returns nil every record of the page has been sent, and over an unbuffered
\* itemChan the consumer has received them all.
C15_OneItemPerRecordInOrder ==
    /\ Len(sentItems) <= Len(events)
    /\ \A k \in 1..Len(sentItems) : sentItems[k].record = events[k]
    /\ listerPc \in {"loop", "send"} => idx = Len(sentItems) + 1
    /\ received \o itemBuf = SentGraphs
    /\ Len(itemBuf) <= chanCap
    /\ (mainPc = "returned" /\ filename = "" /\ retErr.isNil)
         => /\ Len(sentItems) = Len(events)
            /\ Len(received) + Len(itemBuf) = Len(events)
            /\ chanCap = 0 => Len(received) = Len(events)

C15_Witness ==
    /\ mainPc = "returned"
    /\ filename = ""
    /\ retErr.isNil
    /\ Len(events) = 2
    /\ Len(sentItems) = 2
    /\ chanCap = 0
    /\ Len(received) = 2

\* C18: no listing goroutine outlives ListItems: once ListItems is past its
\* receive loop it has received one result per goroutine started, and no
\* goroutine is left running or blocked in a send.
C18_NoGoroutineOutlivesListItems ==
    mainPc \in {"defer", "returned"}
        => /\ i = goStarted
           /\ goStarted = (IF filename = "" THEN NumListers ELSE 0)
           /\ listerPc \in {"idle", "done"}
           /\ listerPc = "idle" <=> goStarted = 0

C18_Witness ==
    /\ mainPc = "returned"
    /\ goStarted = 1
    /\ i = 1
    /\ listerPc = "done"
    /\ Len(sentItems) > 0

\* C19: a listing task fails only before it has sent anything: a non-nil
\* error of listItems or of ListItems means no item was sent, and after a send
\* ListItems returns nil.
C19_FailureOnlyBeforeFirstSend ==
    /\ ~listErr.isNil => sentItems = <<>>
    /\ (mainPc \in {"defer", "returned"} /\ ~retErr.isNil) => sentItems = <<>>
    /\ (mainPc \in {"defer", "returned"} /\ Len(sentItems) > 0) => retErr.isNil

C19_Witness ==
    /\ mainPc = "returned"
    /\ Len(sentItems) > 0
    /\ Len(received) > 0
    /\ retErr.isNil

\* C13: the lower time bound of the list request is the start of the caller's
\* window when the Timeframe has one and the current time otherwise; the
\* request asks for at most 10 records, non-deleted, single events, ordered by
\* start time.
C13_RequestBoundedByWindowStart ==
    listCalls > 0
        => /\ listReq.timeMin = (IF timeframe.hasSince THEN RFC3339(timeframe.since)
                                 ELSE RFC3339(ClockNow))
           /\ listReq.maxResults <= 10
           /\ ~listReq.showDeleted
           /\ listReq.singleEvents
           /\ listReq.orderBy = "startTime"

----------------------------------------------------------------------------
(* DataFileReader while its caller cancels *)

\* the caller cancels its context during a time.Sleep of DataFileReader;
\* DataFileReader takes no context and time.Sleep cannot be interrupted
Fetch_CancelDuringSleep ==
    /\ fpc = "sleep"
    /\ ~ctxDone
    /\ ctxDone' = TRUE
    /\ cancelAt' = "sleep"
    /\ UNCHANGED <<filename, remote, chanCap, timeframe, listReq, mainPc, i, errs, retErr,
                   listerPc, goStarted, srvNil, events, nextPageToken, idx, listErr,
                   listCalls, itemBuf, itemChanClosed, closeCount, sentItems, received,
                   consumerStopped, consumerSawClose, panicked>>
    /\ UNCHANGED <<fvars, mvars>>

FetchCancelNext ==
    \/ FetchNext
    \/ Fetch_CancelDuringSleep

FetchCancelSpec == FetchInit /\ [][FetchCancelNext]_vars

\* C14: a cancellation that arrives while DataFileReader waits between two
\* attempts interrupts the wait: no sleep is completed and no attempt is made
\* after it, and the call returns a cancellation-class error.
C14_CancelInterruptsBackoff ==
    /\ [][(ctxDone /\ cancelAt = "sleep") => (slept' = slept /\ history' = history)]_vars
    /\ []((ctxDone /\ cancelAt = "sleep" /\ fpc = "returned")
            => (~retFetchErr.isNil /\ Contains(retFetchErr.msg, <<"context canceled">>)))

----------------------------------------------------------------------------
(* eventItem.Metadata *)

Digits == {"0", "7"}

Chars == Digits \cup {"x"}

DigitVal(c) == IF c = "7" THEN 7 ELSE 0

RECURSIVE SeqsUpTo(_, _)
SeqsUpTo(S, n) ==
    IF n = 0 THEN {<<>>}
    ELSE LET shorter == SeqsUpTo(S, n - 1)
         IN  shorter \cup {Append(t, c) : t \in shorter, c \in S}

\* EventMetadata.Height as text; the empty text is an absent height
HeightTexts == SeqsUpTo(Chars, MaxHeightLen)

RECURSIVE DecimalValue(_)
DecimalValue(str) ==
    IF str = <<>> THEN 0
    ELSE 10 * DecimalValue(SubSeq(str, 1, Len(str) - 1)) + DigitVal(str[Len(str)])

\* strconv.Atoi: an error for the empty text and for any character that is
\* not a digit
Atoi(str) ==
    IF str # <<>> /\ \A k \in 1..Len(str) : str[k] \in Digits
      THEN [n |-> DecimalValue(str), err |-> NilErr]
      ELSE [n |-> 0, err |-> Err(<<"strconv.Atoi: parsing ">> \o str \o <<": invalid syntax">>)]

ExposureTexts == {<<>>, <<"7", "s">>, <<"x", "s">>}

\* time.ParseDuration: digits followed by a unit
ParseDuration(str) ==
    IF Len(str) = 2 /\ str[1] \in Digits /\ str[2] = "s"
      THEN [d |-> DigitVal(str[1]), err |-> NilErr]
      ELSE [d |-> 0, err |-> Err(<<"time: invalid duration ">> \o str)]

Photos ==
    [isNil : {TRUE}, ExposureTime : {<<>>}] \cup [isNil : {FALSE}, ExposureTime : ExposureTexts]

MetaItems == [Height : HeightTexts, Photo : Photos, Video : BOOLEAN]

MetaInit ==
    /\ filename = ""
    /\ remote = <<0>>
    /\ chanCap = 0
    /\ timeframe = [hasSince |-> FALSE, since |-> ZeroTime]
    /\ ListVars("idle")
    /\ FetchIdle
    /\ metaItem \in MetaItems
    /\ MetaVars("start")

\* widthInt, err := strconv.Atoi("0")
Meta_Width ==
    /\ metaPc = "start"
    /\ LET a == Atoi(<<"0">>)
       IN  IF a.err.isNil
             THEN /\ widthInt' = a.n
                  /\ metaPc' = "height"
                  /\ UNCHANGED <<metaRet, metaErr>>
             ELSE /\ metaRet' = NoMeta
                  /\ metaErr' = Errorf("parsing width as int: ", a.err.msg)
                  /\ metaPc' = "returned"
                  /\ UNCHANGED widthInt
    /\ UNCHANGED <<metaItem, heightInt, meta>>
    /\ UNCHANGED <<lvars, fvars>>

\* heightInt, err := strconv.Atoi(m.EventMetadata.Height)
Meta_Height ==
    /\ metaPc = "height"
    /\ LET a == Atoi(metaItem.Height)
       IN  IF a.err.isNil
             THEN /\ heightInt' = a.n
                  /\ metaPc' = "build"
                  /\ UNCHANGED <<metaRet, metaErr>>
             ELSE /\ metaRet' = NoMeta
                  /\ metaErr' = Errorf("parsing height as int: ", a.err.msg)
                  /\ metaPc' = "returned"
                  /\ UNCHANGED heightInt
    /\ UNCHANGED <<metaItem, widthInt, meta>>
    /\ UNCHANGED <<lvars, fvars>>

\* meta := &timeliner.Metadata{Width: widthInt, Height: heightInt}
Meta_Build ==
    /\ metaPc = "build"
    /\ meta' = [isNil |-> FALSE, Width |-> widthInt, Height |-> heightInt,
                CameraMake |-> "", ExposureTime |-> 0, FPS |-> 0]
    /\ metaPc' = IF ~metaItem.Photo.isNil THEN "photo"
                 ELSE IF metaItem.Video THEN "video"
                 ELSE "return"
    /\ UNCHANGED <<metaItem, widthInt, heightInt, metaRet, metaErr>>
    /\ UNCHANGED <<lvars, fvars>>

\* if m.EventMetadata.Photo != nil { ... }
Meta_Photo ==
    /\ metaPc = "photo"
    /\ IF metaItem.Photo.ExposureTime # <<>>
         THEN LET p == ParseDuration(metaItem.Photo.ExposureTime)
              IN  IF p.err.isNil
                    THEN /\ meta' = [meta EXCEPT !.CameraMake = "photo camera",
                                                 !.ExposureTime = p.d]
                         /\ metaPc' = "return"
                         /\ UNCHANGED <<metaRet, metaErr>>
                    ELSE /\ metaRet' = NoMeta
                         /\ metaErr' = Errorf("parsing exposure time as duration: ",
                                              p.err.msg)
                         /\ metaPc' = "returned"
                         /\ UNCHANGED meta
         ELSE /\ meta' = [meta EXCEPT !.CameraMake = "photo camera"]
              /\ metaPc' = "return"
              /\ UNCHANGED <<metaRet, metaErr>>
    /\ UNCHANGED <<metaItem, widthInt, heightInt>>
    /\ UNCHANGED <<lvars, fvars>>

\* else if m.EventMetadata.Video != nil { ... }
Meta_Video ==
    /\ metaPc = "video"
    /\ meta' = [meta EXCEPT !.CameraMake = "video camera", !.FPS = 30]
    /\ metaPc' = "return"
    /\ UNCHANGED <<metaItem, widthInt, heightInt, metaRet, metaErr>>
    /\ UNCHANGED <<lvars, fvars>>

\* return meta, nil
Meta_Return ==
    /\ metaPc = "return"
    /\ metaRet' = meta
    /\ metaErr' = NilErr
    /\ metaPc' = "returned"
    /\ UNCHANGED <<metaItem, widthInt, heightInt, meta>>
    /\ UNCHANGED <<lvars, fvars>>

MetaNext ==
    \/ Meta_Width
    \/ Meta_Height
    \/ Meta_Build
    \/ Meta_Photo
    \/ Meta_Video
    \/ Meta_Return

MetaSpec == MetaInit /\ [][MetaNext]_vars

\* C16: Metadata() reports no numeric field as 0 because the source value is
\* absent: the record has no width, so a returned Width is not 0; an absent
\* height does not fail the item and is not returned as 0.
C16_AbsentDimensionNotZero ==
    metaPc = "returned"
        => /\ ~metaRet.isNil => metaRet.Width # 0
           /\ metaItem.Height = <<>> => (metaErr.isNil /\ ~metaRet.isNil)
           /\ (metaItem.Height = <<>> /\ ~metaRet.isNil) => metaRet.Height # 0

====
